---- MODULE Spec2Model ----
(***************************************************************************)
(* Gesture classification (hooks/useHandTracking.ts) and the mode state    *)
(* machine spread over App (App.tsx) and MagicParticles                    *)
(* (components/MagicParticles.tsx, the second half of src/App.tsx).        *)
(*                                                                         *)
(* React state is modelled as it behaves: a setState call changes the      *)
(* state cell at once, but effects and the useFrame callback read the      *)
(* values captured by the last committed render (`rendered`), and passive  *)
(* effects run some time after the commit that scheduled them.             *)
(*                                                                         *)
(* The effect of useHandTracking is modelled by the positions of its two   *)
(* async functions, startCamera and processFrame, between their awaits,    *)
(* and by the cleanup, which may run between any two of their steps.       *)
(*                                                                         *)
(* Coordinates are integers in units of 1/Unit of the normalised image;    *)
(* the cursor x, y of HandData are in units of 1/(2*Unit), so that the     *)
(* midpoint of two landmarks stays an integer.  Distances are compared by  *)
(* their squares, which is exact for non-negative numbers.                 *)
(***************************************************************************)
EXTENDS Integers, Sequences, FiniteSets, TLC

VARIABLES
    handData,          \* useHandTracking: the handData state cell
    results,           \* the Results object last passed to onResults
    mode,              \* App: the mode state cell
    photos,            \* App: the photos state cell (sequence of object URLs)
    activePhotoIndex,  \* MagicParticles: the activePhotoIndex state cell
    rendered,          \* values captured by the last committed render
    appEffectPending,  \* App's transition effect is scheduled
    resetEffectPending,\* MagicParticles' reset effect is scheduled
    rotation,          \* which branch of useFrame last drove groupRef.rotation
    frameRan,          \* useFrame has run since the last commit
    hist,              \* signals published one after the other, each when the
                       \* previous one was fully processed (history variable)
    tracking           \* useHandTracking: the refs, the camera, the pose model
                       \* and the positions of startCamera and processFrame

vars == <<handData, results, mode, photos, activePhotoIndex, rendered,
          appEffectPending, resetEffectPending, rotation, frameRan, hist,
          tracking>>

appVars == <<mode, photos, activePhotoIndex, rendered, appEffectPending,
             resetEffectPending, rotation, frameRan, hist>>

-----------------------------------------------------------------------------
(* types.ts *)

TREE == "TREE"
SCATTER == "SCATTER"
PHOTO_VIEW == "PHOTO_VIEW"
AppMode == {TREE, SCATTER, PHOTO_VIEW}

NONE == "NONE"
OPEN_HAND == "OPEN_HAND"
FIST == "FIST"
PINCH == "PINCH"
GestureType == {NONE, OPEN_HAND, FIST, PINCH}

\* activePhotoIndex: number | null; no index is negative
NULL == -1

\* grid units per 1.0 of a normalised coordinate
Unit == 100

-----------------------------------------------------------------------------
(* Bounds of the model *)

\* the photo list is capped at this many photos
MaxPhotos == 2
\* the thumb tip lies 0..MaxPinch grid units to the right of the index tip
MaxPinch == 6
\* hist keeps at most this many signals
MaxHist == 3
\* no more than this many pose-estimation requests are counted in flight
MaxInFlight == 2

-----------------------------------------------------------------------------
(* hooks/useHandTracking.ts: onResults *)

\* the landmark indices onResults reads (of the 21 of a hand)
LandmarkIndices == {0, 4, 6, 8, 9, 10, 12, 14, 16, 18, 20}

\* (tip, PIP joint) of the index, middle, ring and pinky finger
Fingers == {<<8, 6>>, <<12, 10>>, <<16, 14>>, <<20, 18>>}

Sq(n) == n * n

\* twice the centroid of wrist and middle-finger knuckle
centerX2(landmarks) == landmarks[0].x + landmarks[9].x
centerY2(landmarks) == landmarks[0].y + landmarks[9].y

isFingerOpen(landmarks, f) == landmarks[f[1]].y < landmarks[f[2]].y

openFingersCount(landmarks) ==
    Cardinality({f \in Fingers : isFingerOpen(landmarks, f)})

\* Math.hypot(a, b) squared
handScale2(landmarks) ==
    Sq(landmarks[0].x - landmarks[9].x) + Sq(landmarks[0].y - landmarks[9].y)

pinchDist2(landmarks) ==
    Sq(landmarks[8].x - landmarks[4].x) + Sq(landmarks[8].y - landmarks[4].y)

\* pinchDist < 0.05, that is 20 * pinchDist < 1, in grid units 20 * d < Unit
pinchAbsolute(landmarks) == 400 * pinchDist2(landmarks) < Sq(Unit)

\* pinchDist < handScale * 0.5, that is 2 * d < s
pinchRelative(landmarks) == 4 * pinchDist2(landmarks) < handScale2(landmarks)

\* a slip that tests the pinch before the closed hand
gesturePinchFirst(landmarks) ==
    IF pinchAbsolute(landmarks) \/ pinchRelative(landmarks) THEN PINCH
    ELSE IF openFingersCount(landmarks) = 0 THEN FIST
    ELSE IF openFingersCount(landmarks) >= 3 THEN OPEN_HAND
    ELSE NONE

\* a slip that asks for all four fingers before it reads an open hand
gestureOpenNeedsFour(landmarks) ==
    IF openFingersCount(landmarks) = 0 THEN FIST
    ELSE IF pinchAbsolute(landmarks) \/ pinchRelative(landmarks) THEN PINCH
    ELSE IF openFingersCount(landmarks) > 3 THEN OPEN_HAND
    ELSE NONE

\* a slip that tests the open hand before the pinch
gestureOpenHandFirst(landmarks) ==
    IF openFingersCount(landmarks) = 0 THEN FIST
    ELSE IF openFingersCount(landmarks) >= 3 THEN OPEN_HAND
    ELSE IF pinchAbsolute(landmarks) \/ pinchRelative(landmarks) THEN PINCH
    ELSE NONE

\* a slip that reads an open hand from two open fingers on
gestureOpenFromTwo(landmarks) ==
    IF openFingersCount(landmarks) = 0 THEN FIST
    ELSE IF pinchAbsolute(landmarks) \/ pinchRelative(landmarks) THEN PINCH
    ELSE IF openFingersCount(landmarks) >= 2 THEN OPEN_HAND
    ELSE NONE

gestureOf(landmarks) ==
    IF openFingersCount(landmarks) = 0 THEN FIST
    ELSE IF pinchAbsolute(landmarks) \/ pinchRelative(landmarks) THEN PINCH
    ELSE IF openFingersCount(landmarks) >= 3 THEN OPEN_HAND
    ELSE NONE

\* a slip that keeps the gesture of the last present frame
onResultsKeepGesture(prev, res) ==
    IF Len(res) > 0
    THEN [gesture |-> gestureOf(res[1]),
          x |-> 2 * Unit - centerX2(res[1]),
          y |-> centerY2(res[1]),
          isPresent |-> TRUE]
    ELSE [prev EXCEPT !.isPresent = FALSE]

\* a slip that leaves out the mirroring of x
onResultsUnmirrored(prev, res) ==
    IF Len(res) > 0
    THEN [gesture |-> gestureOf(res[1]),
          x |-> centerX2(res[1]),
          y |-> centerY2(res[1]),
          isPresent |-> TRUE]
    ELSE [prev EXCEPT !.isPresent = FALSE, !.gesture = NONE]

\* a slip that puts the cursor back to the centre when the hand is lost
onResultsResetCursor(prev, res) ==
    IF Len(res) > 0
    THEN [gesture |-> gestureOf(res[1]),
          x |-> 2 * Unit - centerX2(res[1]),
          y |-> centerY2(res[1]),
          isPresent |-> TRUE]
    ELSE [gesture |-> NONE, x |-> Unit, y |-> Unit, isPresent |-> FALSE]

\* the value onResults passes to setHandData; res is multiHandLandmarks
onResults(prev, res) ==
    IF Len(res) > 0
    THEN [gesture |-> gestureOf(res[1]),
          x |-> 2 * Unit - centerX2(res[1]),
          y |-> centerY2(res[1]),
          isPresent |-> TRUE]
    ELSE [prev EXCEPT !.isPresent = FALSE, !.gesture = NONE]

-----------------------------------------------------------------------------
(* The frames the pose model delivers *)

Pt(px, py) == [x |-> px, y |-> py]

\* wrist at (50, 80); sv is the vector from the knuckle to the wrist; the PIP
\* joints at y = 50; the index tip at (50, y8), the thumb tip (dx, dy) from it
Hand(sv, dx, dy, y8, y12, y16, y20) ==
    [i \in LandmarkIndices |->
        CASE i = 0 -> Pt(50, 80)
          [] i = 9 -> Pt(50 - sv[1], 80 - sv[2])
          [] i = 4 -> Pt(50 + dx, y8 + dy)
          [] i = 8 -> Pt(50, y8)
          [] i = 12 -> Pt(55, y12)
          [] i = 16 -> Pt(60, y16)
          [] i = 20 -> Pt(65, y20)
          [] i = 6 -> Pt(50, 50)
          [] i = 10 -> Pt(55, 50)
          [] i = 14 -> Pt(60, 50)
          [] i = 18 -> Pt(65, 50)]

\* knuckle-to-wrist vectors: a small hand (scale 0.06) and a large one (0.20)
ScaleVectors == {<<0, 6>>, <<12, 16>>}
\* a tip above, level with and below its PIP joint
TipYs == {49, 50, 51}
TipYsCoarse == {49, 51}
ThumbDys == {0, 4}

NoHand == << >>

Frames ==
    {NoHand} \cup
    {<<Hand(sv, dx, dy, y8, y12, y16, y20)>> :
        sv \in ScaleVectors, dx \in 0..MaxPinch, dy \in ThumbDys,
        y8 \in TipYs, y12 \in TipYs, y16 \in TipYsCoarse, y20 \in TipYsCoarse}

\* one frame of each kind, for the runs of the whole application
FistFrame == <<Hand(<<0, 6>>, 0, 0, 51, 51, 51, 51)>>
PinchFrame == <<Hand(<<0, 6>>, 0, 0, 49, 51, 51, 51)>>
OpenFrame == <<Hand(<<0, 6>>, MaxPinch, 0, 49, 49, 49, 49)>>
RelaxedFrame == <<Hand(<<0, 6>>, MaxPinch, 0, 49, 49, 51, 51)>>
KindFrames == {NoHand, FistFrame, PinchFrame, OpenFrame, RelaxedFrame}

\* an open hand with the wrist at w and the middle-finger knuckle at k
HandAt(w, k) ==
    [Hand(<<0, 6>>, MaxPinch, 0, 49, 49, 49, 49) EXCEPT ![0] = w, ![9] = k]

\* normalised coordinates of the wrist and the knuckle: both edges of the
\* image and a point between them
CursorCoords == {0, 30, Unit}

CursorFrames ==
    {<<HandAt(Pt(wx, wy), Pt(kx, ky))>> :
        wx \in CursorCoords, wy \in CursorCoords,
        kx \in CursorCoords, ky \in CursorCoords}

initialHandData == [gesture |-> NONE, x |-> Unit, y |-> Unit, isPresent |-> FALSE]

\* a landmark list cut to its first n points (arrays are dense: a missing
\* index is an index at or beyond the length)
FirstPoints(landmarks, n) ==
    [i \in {j \in DOMAIN landmarks : j < n} |-> landmarks[i]]

\* lengths of malformed landmark lists: empty, cut before the knuckle, and
\* one point short of the 21
MalformedLengths == {0, 9, 20}

MalformedFrames == {<<FirstPoints(OpenFrame[1], n)>> : n \in MalformedLengths}

\* landmarks[i].x with landmarks[i] undefined: onResults throws a TypeError
\* before it reaches setHandData
throwsTypeError(res) ==
    Len(res) > 0 /\ ~(LandmarkIndices \subseteq DOMAIN res[1])

\* hands.onResults(onResults): one result delivered; it is published unless
\* onResults throws
OnResults(res) ==
    /\ results' = res
    /\ handData' = IF throwsTypeError(res) THEN handData
                   ELSE onResults(handData, res)

-----------------------------------------------------------------------------
(* App.tsx and components/MagicParticles.tsx *)

\* what a render captures: the props and state its closures read
Current ==
    [handData |-> handData, mode |-> mode, photos |-> photos,
     activePhotoIndex |-> activePhotoIndex]

\* every state cell has been rendered and no effect is waiting
Settled ==
    /\ rendered = Current
    /\ ~appEffectPending
    /\ ~resetEffectPending

\* ... and useFrame has run on that render: nothing is left to happen
\* until the next signal or upload
Quiescent == Settled /\ frameRan

\* the signal a HandData value carries
ABSENT == "ABSENT"
SignalOf(hd) == IF hd.isPresent THEN hd.gesture ELSE ABSENT

\* hist after a signal is published: it is recorded with the mode it met if
\* the signal before it had been processed to the end, else hist starts anew
Recorded(h, wasQuiescent, hd, m) ==
    IF ~wasQuiescent THEN << >>
    ELSE IF Len(h) < MaxHist THEN Append(h, [signal |-> SignalOf(hd), from |-> m])
    ELSE Append(Tail(h), [signal |-> SignalOf(hd), from |-> m])

\* useHandTracking publishes the next signal to App
PoseFrame ==
    \E res \in KindFrames :
        /\ OnResults(res)
        /\ hist' = IF handData' = handData THEN hist
                   ELSE Recorded(hist, Quiescent, handData', mode)
        /\ UNCHANGED <<mode, photos, activePhotoIndex, rendered,
                       appEffectPending, resetEffectPending, rotation, frameRan,
                       tracking>>

\* a slip that puts the new photos first: [...newPhotos, ...prev]
handlePhotoUploadPrepend(prev, k) == [i \in 1..k |-> Len(prev) + i] \o prev

\* setPhotos(prev => [...prev, ...newPhotos]) with k new object URLs
handlePhotoUpload(prev, k) == prev \o [i \in 1..k |-> Len(prev) + i]

PhotoUpload ==
    /\ Len(photos) < MaxPhotos
    /\ \E k \in 1..(MaxPhotos - Len(photos)) : photos' = handlePhotoUpload(photos, k)
    /\ UNCHANGED <<handData, results, mode, activePhotoIndex, rendered,
                   appEffectPending, resetEffectPending, rotation, frameRan, hist,
                   tracking>>

\* useMemo(() => photos.map(...), [photos]): one particle per photo
photoParticles(ps) == [i \in 1..Len(ps) |-> [id |-> i - 1, photoUrl |-> ps[i]]]

\* React renders and commits: closures capture the current values, and the
\* effects whose dependencies changed are scheduled
Render ==
    /\ rendered # Current
    /\ ~appEffectPending
    /\ ~resetEffectPending
    /\ rendered' = Current
    /\ appEffectPending' =
          (\/ handData.gesture # rendered.handData.gesture
           \/ handData.isPresent # rendered.handData.isPresent
           \/ mode # rendered.mode)
    /\ resetEffectPending' = (mode # rendered.mode)
    /\ frameRan' = FALSE
    /\ UNCHANGED <<handData, results, mode, photos, activePhotoIndex, rotation,
                   hist, tracking>>

NoTransition == "NoTransition"

\* a slip that resets to the tree from Scatter only
gestureTransitionFistFromScatter(hd, m) ==
    IF ~hd.isPresent THEN NoTransition
    ELSE IF hd.gesture = FIST /\ m = SCATTER THEN TREE
    ELSE IF hd.gesture = OPEN_HAND /\ m = TREE THEN SCATTER
    ELSE IF hd.gesture = OPEN_HAND /\ m = PHOTO_VIEW THEN SCATTER
    ELSE NoTransition

\* a slip that makes the open hand a toggle between Tree and Scatter
gestureTransitionOpenToggles(hd, m) ==
    IF ~hd.isPresent THEN NoTransition
    ELSE IF hd.gesture = FIST /\ m # TREE THEN TREE
    ELSE IF hd.gesture = OPEN_HAND /\ m = TREE THEN SCATTER
    ELSE IF hd.gesture = OPEN_HAND /\ m = SCATTER THEN TREE
    ELSE IF hd.gesture = OPEN_HAND /\ m = PHOTO_VIEW THEN SCATTER
    ELSE NoTransition

\* a slip that releases the photo to the tree
gestureTransitionOpenToTree(hd, m) ==
    IF ~hd.isPresent THEN NoTransition
    ELSE IF hd.gesture = FIST /\ m # TREE THEN TREE
    ELSE IF hd.gesture = OPEN_HAND /\ m = TREE THEN SCATTER
    ELSE IF hd.gesture = OPEN_HAND /\ m = PHOTO_VIEW THEN TREE
    ELSE NoTransition

\* the mode App's effect passes to setMode, NoTransition if it calls nothing
gestureTransition(hd, m) ==
    IF ~hd.isPresent THEN NoTransition
    ELSE IF hd.gesture = FIST /\ m # TREE THEN TREE
    ELSE IF hd.gesture = OPEN_HAND /\ m = TREE THEN SCATTER
    ELSE IF hd.gesture = OPEN_HAND /\ m = PHOTO_VIEW THEN SCATTER
    ELSE NoTransition

\* App: useEffect(..., [handData.gesture, handData.isPresent, mode])
AppEffect ==
    /\ appEffectPending
    /\ appEffectPending' = FALSE
    /\ mode' = IF gestureTransition(rendered.handData, rendered.mode) = NoTransition
               THEN mode
               ELSE gestureTransition(rendered.handData, rendered.mode)
    /\ UNCHANGED <<handData, results, photos, activePhotoIndex, rendered,
                   resetEffectPending, rotation, frameRan, hist, tracking>>

\* whether the reset effect calls setActivePhotoIndex(null)
resetsActivePhoto(m) == m # PHOTO_VIEW

\* MagicParticles: useEffect(..., [mode])
ResetEffect ==
    /\ resetEffectPending
    /\ resetEffectPending' = FALSE
    /\ activePhotoIndex' = IF resetsActivePhoto(rendered.mode) THEN NULL
                           ELSE activePhotoIndex
    /\ UNCHANGED <<handData, results, mode, photos, rendered, appEffectPending,
                   rotation, frameRan, hist, tracking>>

\* a slip that forgets the test for an empty photo list
pinchSelectsNoLength(r) ==
    /\ r.handData.gesture = PINCH
    /\ r.mode = SCATTER
    /\ r.activePhotoIndex = NULL

\* a slip that forgets the test of the mode
pinchSelectsAnyMode(r) ==
    /\ r.handData.gesture = PINCH
    /\ r.activePhotoIndex = NULL
    /\ Len(photoParticles(r.photos)) > 0

\* a slip that tests for "not yet in PhotoView" instead of Scatter
pinchSelectsOutsidePhotoView(r) ==
    /\ r.handData.gesture = PINCH
    /\ r.mode # PHOTO_VIEW
    /\ r.activePhotoIndex = NULL
    /\ Len(photoParticles(r.photos)) > 0

\* the guard of the pinch transition in useFrame
pinchSelects(r) ==
    /\ r.handData.gesture = PINCH
    /\ r.mode = SCATTER
    /\ r.activePhotoIndex = NULL
    /\ Len(photoParticles(r.photos)) > 0

\* a slip that rounds instead of flooring: Math.round(Math.random() * n)
randomIndicesRounded(n) == 0..n

\* Math.floor(Math.random() * n) with Math.random() in [0, 1)
randomIndices(n) == IF n > 0 THEN 0..(n - 1) ELSE {0}

\* which branch of useFrame drives the group's rotation
rotationDriver(r, old) ==
    IF r.mode = SCATTER /\ r.handData.isPresent THEN "hand"
    ELSE IF r.mode = TREE THEN "auto"
    ELSE old

\* MagicParticles: useFrame, once per animation frame
Frame ==
    /\ rotation' = rotationDriver(rendered, rotation)
    /\ frameRan' = TRUE
    /\ IF pinchSelects(rendered)
       THEN \E randomIndex \in randomIndices(Len(photoParticles(rendered.photos))) :
               /\ activePhotoIndex' = randomIndex
               /\ mode' = PHOTO_VIEW
       ELSE UNCHANGED <<activePhotoIndex, mode>>
    /\ UNCHANGED <<handData, results, photos, rendered, appEffectPending,
                   resetEffectPending, hist, tracking>>

-----------------------------------------------------------------------------
(* hooks/useHandTracking.ts: the effect, startCamera, processFrame, cleanup *)

\* tracking.effect: "pending", "noVideo", "noScript" or "started"
\* tracking.camera, the position of startCamera: "idle", "getUserMedia",
\*   "metadata" and "play" (the three awaits), "done" (processFrame called),
\*   "skipped" (the stream arrived with videoRef.current null), "caught"
\* tracking.loop, the position of processFrame: "idle", "sending" (awaiting
\*   send), "scheduled" (requestAnimationFrame pending), "cancelled",
\*   "returned" (left by the guard of line 131)
\* tracking.stream, the tracks of the MediaStream: "none", "live", "stopped"
\* tracking.hands: "null", "open", "closed"
initialTracking ==
    [effect |-> "pending", videoRef |-> TRUE, hands |-> "null",
     camera |-> "idle", stream |-> "none", srcObject |-> FALSE,
     loop |-> "idle", inFlight |-> 0, skipped |-> FALSE,
     logged |-> FALSE, unhandled |-> FALSE, cleaned |-> FALSE]

\* the body of the effect up to startCamera(); hasHands is window.Hands
useEffectBody(t, hasHands) ==
    IF ~t.videoRef THEN [t EXCEPT !.effect = "noVideo"]
    ELSE IF ~hasHands THEN [t EXCEPT !.effect = "noScript", !.logged = TRUE]
    ELSE [t EXCEPT !.effect = "started", !.hands = "open",
                   !.camera = "getUserMedia"]

\* a slip that leaves the rejection of startCamera unhandled
onCameraErrorUnhandled(t) ==
    [t EXCEPT !.camera = "caught", !.unhandled = TRUE]

\* catch (e) { console.error("Error accessing camera:", e) }
onCameraError(t) ==
    [t EXCEPT !.camera = "caught", !.logged = TRUE]

\* getUserMedia resolved with a stream
streamAcquired(t) ==
    IF t.videoRef
    THEN [t EXCEPT !.stream = "live", !.srcObject = TRUE, !.camera = "metadata"]
    ELSE [t EXCEPT !.stream = "live", !.camera = "skipped"]

\* readyState >= 2 && !paused && !ended needs a playing, live stream
videoPlaying(t) ==
    t.srcObject /\ t.stream = "live" /\ t.camera = "done"

\* a slip that requests the next animation frame without awaiting send
processFrameNoAwait(t, ready) ==
    IF ~t.videoRef \/ t.hands = "null" THEN [t EXCEPT !.loop = "returned"]
    ELSE IF ready /\ videoPlaying(t)
    THEN [t EXCEPT !.loop = "scheduled", !.inFlight = @ + 1]
    ELSE [t EXCEPT !.loop = "scheduled"]

\* processFrame up to its await, or to its end when nothing is sent; ready
\* is what readyState >= 2 reads on a playing video
processFrame(t, ready) ==
    IF ~t.videoRef \/ t.hands = "null" THEN [t EXCEPT !.loop = "returned"]
    ELSE IF ready /\ videoPlaying(t)
    THEN [t EXCEPT !.loop = "sending", !.inFlight = @ + 1]
    ELSE [t EXCEPT !.loop = "scheduled"]

\* processFrame after its await: requestRef.current = requestAnimationFrame(..)
sendSettled(t) ==
    [t EXCEPT !.inFlight = @ - 1, !.loop = "scheduled"]

\* the function the effect returns; attached is videoRef.current when it
\* runs, attachedAfter is videoRef.current once the unmount is complete
cleanup(t, attached, attachedAfter) ==
    [t EXCEPT !.cleaned = TRUE,
              !.loop = IF @ = "scheduled" THEN "cancelled" ELSE @,
              !.hands = IF @ = "null" THEN @ ELSE "closed",
              !.stream = IF attached /\ t.srcObject /\ @ = "live"
                         THEN "stopped" ELSE @,
              !.videoRef = attachedAfter]

\* the frames send can hand to onResults
SentFrames == KindFrames \cup MalformedFrames

trackingUnchanged ==
    UNCHANGED <<mode, photos, activePhotoIndex, rendered, appEffectPending,
                resetEffectPending, rotation, frameRan, hist>>

EffectRun ==
    /\ tracking.effect = "pending"
    /\ \E hasHands \in BOOLEAN : tracking' = useEffectBody(tracking, hasHands)
    /\ UNCHANGED <<handData, results>>
    /\ trackingUnchanged

GetUserMediaSettles ==
    /\ tracking.camera = "getUserMedia"
    /\ \/ tracking' = streamAcquired(tracking)
       \/ tracking' = onCameraError(tracking)
    /\ UNCHANGED <<handData, results>>
    /\ trackingUnchanged

\* onloadedmetadata resolves the promise; videoRef.current.play() is called
MetadataLoaded ==
    /\ tracking.camera = "metadata"
    /\ tracking' = IF tracking.videoRef THEN [tracking EXCEPT !.camera = "play"]
                   ELSE onCameraError(tracking)
    /\ UNCHANGED <<handData, results>>
    /\ trackingUnchanged

\* play() resolves and processFrame() is called, or play() rejects
PlaySettles ==
    /\ tracking.camera = "play"
    /\ \/ \E ready \in BOOLEAN :
             tracking' = processFrame([tracking EXCEPT !.camera = "done"], ready)
       \/ tracking' = onCameraError(tracking)
    /\ UNCHANGED <<handData, results>>
    /\ trackingUnchanged

\* the animation frame requested by processFrame falls due
AnimationFrame ==
    /\ tracking.loop = "scheduled"
    /\ \E ready \in BOOLEAN :
          /\ processFrame(tracking, ready).inFlight <= MaxInFlight
          /\ tracking' = processFrame(tracking, ready)
    /\ UNCHANGED <<handData, results>>
    /\ trackingUnchanged

\* a display frame falls due while send is awaited: nothing is scheduled
SkippedFrame ==
    /\ tracking.loop = "sending"
    /\ ~tracking.skipped
    /\ tracking' = [tracking EXCEPT !.skipped = TRUE]
    /\ UNCHANGED <<handData, results>>
    /\ trackingUnchanged

\* send settles: it has called onResults and resolves, or it throws into
\* the empty catch of processFrame; setHandData has no effect once the
\* component is unmounted (videoRef.current is null from then on)
SendSettles ==
    /\ tracking.inFlight > 0
    /\ \/ \E res \in SentFrames :
             IF tracking.videoRef THEN OnResults(res)
             ELSE results' = res /\ handData' = handData
       \/ UNCHANGED <<handData, results>>
    /\ tracking' = sendSettled(tracking)
    /\ trackingUnchanged

Cleanup ==
    /\ tracking.effect = "started"
    /\ ~tracking.cleaned
    /\ \E attached \in BOOLEAN, attachedAfter \in BOOLEAN :
          /\ attachedAfter => attached
          /\ attached => tracking.videoRef
          /\ tracking' = cleanup(tracking, attached, attachedAfter)
    /\ UNCHANGED <<handData, results>>
    /\ trackingUnchanged

-----------------------------------------------------------------------------
(* The application: state after the first render; its transition and reset *)
(* effects change nothing, the effect of useHandTracking has yet to run     *)

Init ==
    /\ handData = initialHandData
    /\ results = NoHand
    /\ mode = TREE
    /\ photos = << >>
    /\ activePhotoIndex = NULL
    /\ rendered = [handData |-> initialHandData, mode |-> TREE, photos |-> << >>,
                   activePhotoIndex |-> NULL]
    /\ appEffectPending = FALSE
    /\ resetEffectPending = FALSE
    /\ rotation = "rest"
    /\ frameRan = FALSE
    /\ hist = << >>
    /\ tracking = initialTracking

Next ==
    \/ PoseFrame
    \/ PhotoUpload
    \/ Render
    \/ AppEffect
    \/ ResetEffect
    \/ Frame

Spec == Init /\ [][Next]_vars

\* React runs every render and every passive effect it has scheduled, and
\* the render loop of the canvas calls useFrame on every animation frame;
\* nothing is assumed of the signals and the uploads
FairSpec ==
    /\ Spec
    /\ WF_vars(Render)
    /\ WF_vars(AppEffect)
    /\ WF_vars(ResetEffect)
    /\ WF_vars(Frame)

-----------------------------------------------------------------------------
(* The classifier alone: every frame of Frames is delivered to onResults *)

Classify ==
    /\ \E res \in Frames \cup CursorFrames : OnResults(res)
    /\ UNCHANGED <<appVars, tracking>>

ClassifyNext == Classify

ClassifySpec == Init /\ [][ClassifyNext]_vars

-----------------------------------------------------------------------------
(* useHandTracking alone: the effect, the camera and the frame loop *)

TrackingNext ==
    \/ EffectRun
    \/ GetUserMediaSettles
    \/ MetadataLoaded
    \/ PlaySettles
    \/ AnimationFrame
    \/ SkippedFrame
    \/ SendSettles
    \/ Cleanup

TrackingSpec == Init /\ [][TrackingNext]_vars

-----------------------------------------------------------------------------
(* The application driven by useHandTracking: signals are published only  *)
(* when a send of the frame loop settles (hist is not recorded here)       *)

TrackedNext ==
    \/ EffectRun
    \/ GetUserMediaSettles
    \/ MetadataLoaded
    \/ PlaySettles
    \/ AnimationFrame
    \/ SkippedFrame
    \/ SendSettles
    \/ Cleanup
    \/ PhotoUpload
    \/ Render
    \/ AppEffect
    \/ ResetEffect
    \/ Frame

TrackedSpec == Init /\ [][TrackedNext]_vars

-----------------------------------------------------------------------------
(* Claims *)

\* the last signals of hist are exactly sigs, the first of them published
\* when the mode was m
HistEnds(sigs, m) ==
    /\ Len(hist) >= Len(sigs)
    /\ \A i \in 1..Len(sigs) :
          hist[Len(hist) - Len(sigs) + i].signal = sigs[i]
    /\ hist[Len(hist) - Len(sigs) + 1].from = m

\* C1: in every reachable state the active photo index is non-null if and
\* only if the mode is PhotoView, the states between a mode change and the
\* reset effect included.
C1_ActiveIffPhotoView ==
    (activePhotoIndex # NULL) <=> (mode = PHOTO_VIEW)

\* C2: a present Fist signal, once processed, leaves the mode Tree and no
\* active item: App's effect sets Tree from Scatter and PhotoView and changes
\* nothing in Tree, the reset effect clears the item; [OpenHand, Pinch, Fist]
\* from Tree ends in Tree with no active item.
C2_FistForcesTree ==
    /\ [][(AppEffect /\ rendered.handData.isPresent
                     /\ rendered.handData.gesture = FIST) => mode' = TREE]_vars
    /\ []((Settled /\ handData.isPresent /\ handData.gesture = FIST)
            => (mode = TREE /\ activePhotoIndex = NULL))
    /\ []((Settled /\ HistEnds(<<OPEN_HAND, PINCH, FIST>>, TREE))
            => (mode = TREE /\ activePhotoIndex = NULL))

\* C2 witness: the Fist of [OpenHand, Pinch, Fist] has been processed after
\* the Pinch had selected a photo
C2_Witness ==
    /\ Quiescent
    /\ HistEnds(<<OPEN_HAND, PINCH, FIST>>, TREE)
    /\ hist[Len(hist)].from = PHOTO_VIEW
    /\ mode = TREE
    /\ activePhotoIndex = NULL

\* C3: a present OpenHand signal takes Tree to Scatter and PhotoView to
\* Scatter, never to Tree, and once it is processed no item is active.
C3_OpenHandScatters ==
    /\ [][(AppEffect /\ rendered.handData.isPresent
                     /\ rendered.handData.gesture = OPEN_HAND
                     /\ rendered.mode \in {TREE, PHOTO_VIEW}) => mode' = SCATTER]_vars
    /\ []((Settled /\ handData.isPresent /\ handData.gesture = OPEN_HAND)
            => (mode = SCATTER /\ activePhotoIndex = NULL))

\* C3 witness: an OpenHand published in PhotoView has been processed
C3_Witness ==
    /\ Quiescent
    /\ HistEnds(<<PINCH, OPEN_HAND>>, SCATTER)
    /\ hist[Len(hist)].from = PHOTO_VIEW
    /\ mode = SCATTER
    /\ activePhotoIndex = NULL

\* the render useFrame reads holds a Pinch in Scatter with nothing selected
PinchInScatter(r) ==
    /\ r.handData.gesture = PINCH
    /\ r.mode = SCATTER
    /\ r.activePhotoIndex = NULL

\* C4: a frame that processes a Pinch in Scatter with no active item and at
\* least one photo sets the mode to PhotoView and the active item to an index
\* of an available photo; with one photo, [OpenHand, Pinch] from Tree ends in
\* PhotoView with that photo active.
C4_PinchSelectsPhoto ==
    /\ [][(Frame /\ PinchInScatter(rendered) /\ Len(rendered.photos) > 0)
            => (/\ mode' = PHOTO_VIEW
                /\ activePhotoIndex' \in 0..(Len(rendered.photos) - 1)
                /\ activePhotoIndex' \in 0..(Len(photos) - 1))]_vars
    /\ []((Quiescent /\ HistEnds(<<PINCH>>, SCATTER) /\ Len(photos) > 0)
            => (mode = PHOTO_VIEW /\ activePhotoIndex \in 0..(Len(photos) - 1)))
    /\ []((Quiescent /\ HistEnds(<<OPEN_HAND, PINCH>>, TREE) /\ Len(photos) = 1)
            => (mode = PHOTO_VIEW /\ activePhotoIndex = 0))

\* C4 witness: [OpenHand, Pinch] from Tree has been processed with one photo
C4_Witness ==
    /\ Quiescent
    /\ HistEnds(<<OPEN_HAND, PINCH>>, TREE)
    /\ Len(photos) = 1
    /\ mode = PHOTO_VIEW
    /\ activePhotoIndex = 0

\* C5: once PhotoView has been entered with an active item, frames, renders
\* and signals that keep reading Pinch leave the active item and the mode
\* unchanged, the frames before the re-render included.
C5_NoSecondSelection ==
    [][(/\ Frame \/ Render \/ PoseFrame
        /\ mode = PHOTO_VIEW
        /\ activePhotoIndex # NULL
        /\ rendered.handData.gesture = PINCH
        /\ handData.gesture = PINCH
        /\ handData'.gesture = PINCH)
       => (activePhotoIndex' = activePhotoIndex /\ mode' = mode)]_vars

\* C6: a Pinch processed in Scatter while the photo list is empty leaves the
\* mode Scatter and the active item null.
C6_PinchWithoutPhotos ==
    /\ [][(Frame /\ PinchInScatter(rendered) /\ Len(rendered.photos) = 0)
            => (mode' = mode /\ activePhotoIndex' = activePhotoIndex)]_vars
    /\ []((Quiescent /\ HistEnds(<<PINCH>>, SCATTER) /\ Len(photos) = 0)
            => (mode = SCATTER /\ activePhotoIndex = NULL))

\* C6 witness: a Pinch published in Scatter has been processed with no photo
C6_Witness ==
    /\ Quiescent
    /\ HistEnds(<<PINCH>>, SCATTER)
    /\ Len(photos) = 0
    /\ rendered.handData.gesture = PINCH
    /\ mode = SCATTER

NoRow(r) ==
    \/ r.handData.gesture = NONE
    \/ r.handData.gesture = FIST /\ r.mode = TREE
    \/ r.handData.gesture = OPEN_HAND /\ r.mode = SCATTER
    \/ r.handData.gesture = PINCH /\ r.mode = TREE
    \/ r.handData.gesture = PINCH /\ r.mode = PHOTO_VIEW

\* C8: a signal that matches no row of the transition table leaves the mode
\* and the active item as they are when App's effect and useFrame process it.
C8_NoRowNoChange ==
    [][((AppEffect \/ Frame) /\ NoRow(rendered))
         => (mode' = mode /\ activePhotoIndex' = activePhotoIndex)]_vars

\* C8 witness: a Pinch has been processed in Tree with a photo available
C8_Witness ==
    /\ Quiescent
    /\ rendered.handData.gesture = PINCH
    /\ rendered.handData.isPresent
    /\ mode = TREE
    /\ Len(photos) > 0
    /\ activePhotoIndex = NULL

-----------------------------------------------------------------------------
(* Claims about the classifier, checked under ClassifySpec *)

\* a hand was delivered to onResults
HandSeen == Len(results) > 0

\* no tip of the four fingers is above (has a smaller y than) its PIP joint
AllFingersClosed(landmarks) ==
    \A f \in Fingers : landmarks[f[1]].y >= landmarks[f[2]].y

\* C9: a hand none of whose four fingertips is above its PIP joint is
\* classified Fist, whatever the thumb-index distance and the hand scale.
C9_ClosedHandIsFist ==
    (HandSeen /\ AllFingersClosed(results[1])) => handData.gesture = FIST

\* C9 witness: a closed hand, one tip level with its joint, thumb on the
\* index tip (below both pinch thresholds), classified Fist
C9_Witness ==
    /\ HandSeen
    /\ AllFingersClosed(results[1])
    /\ results[1][8].y = results[1][6].y
    /\ pinchDist2(results[1]) = 0
    /\ pinchAbsolute(results[1]) /\ pinchRelative(results[1])
    /\ handData.gesture = FIST

\* C10 as stated: three or more open fingers and a thumb-index distance
\* above half the hand scale, by any margin, give OpenHand.
C10_OpenHandAnyMargin ==
    (/\ HandSeen
     /\ openFingersCount(results[1]) >= 3
     /\ 4 * pinchDist2(results[1]) > handScale2(results[1]))
    => handData.gesture = OPEN_HAND

\* C10 amended: three or more open fingers and a thumb-index distance above
\* half the hand scale and not below 0.05 give OpenHand.
C10_OpenHandBeyondBothThresholds ==
    (/\ HandSeen
     /\ openFingersCount(results[1]) >= 3
     /\ 4 * pinchDist2(results[1]) > handScale2(results[1])
     /\ 400 * pinchDist2(results[1]) >= Sq(Unit))
    => handData.gesture = OPEN_HAND

\* C10 witness: exactly three open fingers, the thumb 0.05 from the index tip
\* and more than half the hand scale away, classified OpenHand
C10_Witness ==
    /\ HandSeen
    /\ openFingersCount(results[1]) = 3
    /\ 400 * pinchDist2(results[1]) = Sq(Unit)
    /\ 4 * pinchDist2(results[1]) > handScale2(results[1])
    /\ handData.gesture = OPEN_HAND

\* C11: a hand with one to four open fingers is classified Pinch exactly
\* when the thumb-index distance is below 0.05 or below half the hand scale;
\* with three or more open fingers the pinch still wins over the open hand.
C11_PinchIffBelowThreshold ==
    (HandSeen /\ openFingersCount(results[1]) \in 1..4)
    => ((handData.gesture = PINCH)
        <=> (pinchAbsolute(results[1]) \/ pinchRelative(results[1])))

\* C11 witness: four open fingers, the thumb below the relative threshold
\* only (at least 0.05 away), classified Pinch
C11_Witness ==
    /\ HandSeen
    /\ openFingersCount(results[1]) = 4
    /\ ~pinchAbsolute(results[1])
    /\ pinchRelative(results[1])
    /\ handData.gesture = PINCH

\* C12: a hand with exactly one or two open fingers whose thumb-index
\* distance is at least 0.05 and at least half the hand scale is classified
\* None.
C12_FewFingersNoPinchIsNone ==
    (/\ HandSeen
     /\ openFingersCount(results[1]) \in {1, 2}
     /\ ~pinchAbsolute(results[1])
     /\ ~pinchRelative(results[1]))
    => handData.gesture = NONE

\* C12 witness: exactly two open fingers, the thumb exactly 0.05 from the
\* index tip and not below half the hand scale, classified None
C12_Witness ==
    /\ HandSeen
    /\ openFingersCount(results[1]) = 2
    /\ 400 * pinchDist2(results[1]) = Sq(Unit)
    /\ ~pinchRelative(results[1])
    /\ handData.gesture = NONE

\* the coordinates onResults reads for the cursor lie in [0, 1]
CursorInputsInRange(landmarks) ==
    \A i \in {0, 9} : landmarks[i].x \in 0..Unit /\ landmarks[i].y \in 0..Unit

\* C13: for a frame with a hand the published x is 1 minus the mean of the x
\* of wrist and middle-finger knuckle, the published y is the mean of their y,
\* and both stay in [0, 1] when the inputs do (handData.x and handData.y are
\* in half grid units, so twice the mean is the sum).
C13_CursorMirroredCentroid ==
    HandSeen =>
        /\ handData.isPresent
        /\ handData.x + results[1][0].x + results[1][9].x = 2 * Unit
        /\ handData.y = results[1][0].y + results[1][9].y
        /\ CursorInputsInRange(results[1])
               => handData.x \in 0..(2 * Unit) /\ handData.y \in 0..(2 * Unit)

\* C13 witness: wrist at the left edge and knuckle right of it, both at the
\* bottom edge: the cursor is published right of the centre, at the bottom
C13_Witness ==
    /\ HandSeen
    /\ results[1][0].x = 0 /\ results[1][9].x = 30
    /\ results[1][0].y = Unit /\ results[1][9].y = Unit
    /\ handData.x = 2 * Unit - 30
    /\ handData.y = 2 * Unit

\* C14: a frame without a hand publishes present = false and gesture None
\* and keeps the x and y published before it; no absent signal carries a
\* gesture.
C14_AbsentKeepsCursorDropsGesture ==
    [][/\ results' = NoHand =>
              /\ ~handData'.isPresent
              /\ handData'.gesture = NONE
              /\ handData'.x = handData.x
              /\ handData'.y = handData.y
       /\ ~handData'.isPresent => handData'.gesture = NONE]_vars

\* C14 witness: the hand is lost after a pinching hand was published off
\* the centre: the signal is absent with gesture None at that position
C14_Witness ==
    /\ results = NoHand
    /\ ~handData.isPresent
    /\ handData.gesture = NONE
    /\ handData.x = 2 * Unit - 30
    /\ handData.y = 2 * Unit

\* a landmark list that lacks an index onResults reads
Malformed(landmarks) == ~(LandmarkIndices \subseteq DOMAIN landmarks)

\* C15: after a frame with a malformed landmark list (fewer than 21 points,
\* a required index missing) the published signal has present = false and
\* the error has not escaped the frame loop.
C15_MalformedFrameIsAbsent ==
    (Len(results) > 0 /\ Malformed(results[1]))
    => (~handData.isPresent /\ ~tracking.unhandled)

\* C16: once the cleanup has run, no animation frame is requested, no frame
\* is sent to the pose model and no hand signal is published any more.
C16_StoppedLoopStaysStopped ==
    [][tracking.cleaned =>
          /\ tracking'.loop = "scheduled" => tracking.loop = "scheduled"
          /\ tracking'.inFlight <= tracking.inFlight
          /\ handData' = handData]_vars

\* startCamera has run to its end
startCameraFinished(t) == t.camera \in {"done", "skipped", "caught"}

\* C17: when the cleanup and startCamera have both finished, in whatever
\* order their steps interleaved, no camera track is live.
C17_StreamReleased ==
    (tracking.cleaned /\ startCameraFinished(tracking))
    => tracking.stream # "live"

\* C18: at most one pose-estimation request is in flight, and an animation
\* frame is requested only when no request is pending: display frames that
\* fall due during a send find nothing scheduled.
C18_OneRequestInFlight ==
    /\ tracking.inFlight <= 1
    /\ tracking.loop = "scheduled" => tracking.inFlight = 0

\* C18 witness: a display frame fell due while a send was awaited and was
\* skipped; the send has settled since and the next frame is requested
C18_Witness ==
    /\ tracking.skipped
    /\ tracking.loop = "scheduled"
    /\ tracking.inFlight = 0
    /\ handData.isPresent

\* the pose-estimation script is missing, or getUserMedia has rejected
TrackingUnavailable(t) ==
    \/ t.effect = "noScript"
    \/ t.camera = "caught" /\ t.stream = "none"

\* C19: when the script is missing or the camera cannot be acquired, the
\* failure is logged and does not escape, the signal stays absent with
\* gesture None, and the mode stays Tree with no active photo.
C19_DegradedStaysTree ==
    TrackingUnavailable(tracking) =>
        /\ tracking.logged /\ ~tracking.unhandled
        /\ ~handData.isPresent /\ handData.gesture = NONE
        /\ tracking.inFlight = 0
        /\ mode = TREE
        /\ activePhotoIndex = NULL

\* C19 witness: getUserMedia has rejected; photos were added and the scene
\* has been rendered and animated since, in Tree
C19_Witness ==
    /\ tracking.camera = "caught" /\ tracking.stream = "none"
    /\ tracking.logged
    /\ Len(photos) = MaxPhotos
    /\ rendered = Current /\ frameRan /\ rotation = "auto"
    /\ mode = TREE

\* C20: every step that leaves the mode at PhotoView or brings it there
\* starts in Scatter or PhotoView: the mode never goes from Tree to
\* PhotoView in one step.
C20_PhotoViewOnlyFromScatter ==
    [][mode' = PHOTO_VIEW => mode \in {SCATTER, PHOTO_VIEW}]_vars

\* C20 witness: a pinch in Tree changed nothing, an open hand scattered the
\* tree, and the next pinch has brought PhotoView
C20_Witness ==
    /\ Quiescent
    /\ HistEnds(<<PINCH, OPEN_HAND, PINCH>>, TREE)
    /\ Len(photos) = MaxPhotos
    /\ mode = PHOTO_VIEW
    /\ activePhotoIndex # NULL

\* the sequence p is an initial part of the sequence q
IsPrefix(p, q) == Len(p) <= Len(q) /\ SubSeq(q, 1, Len(p)) = p

\* the index idx (null or 0-based) denotes a particle of the photos ps
IndexDefined(idx, ps) ==
    idx # NULL => idx + 1 \in DOMAIN photoParticles(ps)

\* C21: the photo list only grows by appending; a non-null active index
\* lies in 0 .. number of photos - 1, in the state cells and in what a render
\* looks up in photoParticles; a step that adds photos changes neither the
\* mode nor the active index, and the index denotes the same photo after it.
C21_PhotosAppendOnlyIndexInRange ==
    [][/\ IsPrefix(photos, photos')
       /\ IndexDefined(activePhotoIndex', photos')
       /\ IndexDefined(rendered'.activePhotoIndex, rendered'.photos)
       /\ photos' # photos =>
             /\ mode' = mode
             /\ activePhotoIndex' = activePhotoIndex
             /\ activePhotoIndex # NULL =>
                   photoParticles(photos')[activePhotoIndex + 1].photoUrl
                      = photoParticles(photos)[activePhotoIndex + 1].photoUrl]_vars

\* C21 witness: the only photo was selected and rendered in PhotoView, and
\* a photo has been added since: mode and index are as rendered, the index
\* denotes the first photo
C21_Witness ==
    /\ mode = PHOTO_VIEW
    /\ activePhotoIndex = 0
    /\ rendered.mode = PHOTO_VIEW
    /\ rendered.activePhotoIndex = 0
    /\ Len(rendered.photos) = 1
    /\ Len(photos) = MaxPhotos
    /\ IsPrefix(rendered.photos, photos)

\* the published signal is present with gesture g
Held(g) == handData.isPresent /\ handData.gesture = g

\* C22: with renders and effects scheduled fairly, a signal that stays
\* present with Fist from some point on brings the mode to Tree with no
\* active photo for good, and one that stays present with OpenHand brings
\* it to Scatter with no active photo for good.
C22_HeldGestureSettles ==
    /\ <>[]Held(FIST) => <>[](mode = TREE /\ activePhotoIndex = NULL)
    /\ <>[]Held(OPEN_HAND) => <>[](mode = SCATTER /\ activePhotoIndex = NULL)

\* C22 witness: a Fist was published while the signal before it was still
\* being processed (hist was emptied), with photos present; the application
\* has settled in Tree with no active photo
C22_Witness ==
    /\ Held(FIST)
    /\ hist = << >>
    /\ Len(photos) = MaxPhotos
    /\ Quiescent
    /\ mode = TREE
    /\ activePhotoIndex = NULL

====
